---- MODULE Spec2Model ----
(***************************************************************************)
(* Model of the @{path} prompt expansion of gemini-cli:                    *)
(*   AtFileProcessor.process / extractInjections  (atFileProcessor.ts)     *)
(*   readPathFromWorkspace                        (pathReader.ts)          *)
(* Strings are sequences of one-character strings; indices are 0-based as  *)
(* in the source (the character at index i of s is s[i + 1]).              *)
(***************************************************************************)
EXTENDS Integers, Sequences, FiniteSets, TLC

(***************************************************************************)
(* Bounds of the model.                                                    *)
(***************************************************************************)
MaxLen == 7
MaxScanLen == 6
MaxPathLen == 4

(***************************************************************************)
(* Strings.                                                                *)
(***************************************************************************)
Strings(chars, n) == UNION {[1..m -> chars] : m \in 0..n}

\* String.prototype.substring(a, b) for 0 <= a <= b <= length.
Substring(s, a, b) == SubSeq(s, a + 1, b)

\* String.prototype.substring(a) for 0 <= a <= length.
SubstringFrom(s, a) == SubSeq(s, a + 1, Len(s))

\* s.startsWith(t, at): t occurs in s at 0-based position at.
OccursAt(s, t, at) ==
    /\ at + Len(t) <= Len(s)
    /\ \A j \in 1..Len(t) : s[at + j] = t[j]

\* s.includes(t)
Includes(s, t) == \E at \in 0..Len(s) : OccursAt(s, t, at)

\* s.indexOf(t, from): the least position >= from where t occurs, else -1.
IndexOf(s, t, from) ==
    LET Search[at \in Nat] ==
        IF at + Len(t) > Len(s) THEN -1
        ELSE IF OccursAt(s, t, at) THEN at
        ELSE Search[at + 1]
    IN  Search[from]

WhiteSpace == {" ", "\n"}

\* The recursions below are functions, so that their arguments are values.
TrimStart[s \in Seq(STRING)] ==
    IF s # <<>> /\ s[1] \in WhiteSpace THEN TrimStart[Tail(s)] ELSE s

TrimEnd[s \in Seq(STRING)] ==
    IF s # <<>> /\ s[Len(s)] \in WhiteSpace
    THEN TrimEnd[SubSeq(s, 1, Len(s) - 1)] ELSE s

\* String.prototype.trim()
Trim(s) == TrimEnd[TrimStart[s]]

\* Array.prototype.join(sep) on a sequence of strings.
Join(parts, sep) ==
    LET Rest[ps \in Seq(Seq(STRING))] ==
        IF ps = <<>> THEN <<>>
        ELSE IF Len(ps) = 1 THEN ps[1]
        ELSE ps[1] \o sep \o Rest[Tail(ps)]
    IN  Rest[parts]

(***************************************************************************)
(* InjectionScanner: AtFileProcessor.extractInjections.                    *)
(***************************************************************************)
\* Faulty variant: the trigger is the bare '@'.
TriggerBareAt == <<"@">>

AT_FILE_INJECTION_TRIGGER == <<"@", "{">>

\* Faulty variant: the first '}' closes the injection whatever the nesting.
FindEndFirstBrace(text, currentIndex, braceCount) ==
    LET closers == {i \in currentIndex..(Len(text) - 1) : text[i + 1] = "}"}
    IN  IF closers = {} THEN -1
        ELSE CHOOSE i \in closers : \A j \in closers : i <= j

\* Faulty variant: foundEnd is not checked, the end of the text closes an
\* injection that is still open (its last character stands for the '}').
FindEndClosesAtEnd(text, currentIndex, braceCount) ==
    LET Loop[i \in Nat, count \in Nat] ==
        IF i >= Len(text) THEN Len(text) - 1
        ELSE IF text[i + 1] = "{" THEN Loop[i + 1, count + 1]
        ELSE IF text[i + 1] = "}"
             THEN IF count - 1 = 0 THEN i ELSE Loop[i + 1, count - 1]
             ELSE Loop[i + 1, count]
    IN  Loop[currentIndex, braceCount]

\* The inner while loop: from currentIndex with the given braceCount, the
\* index of the '}' that brings braceCount to 0, or -1 when the text ends
\* first (foundEnd stays false).
FindEnd(text, currentIndex, braceCount) ==
    LET Loop[i \in Nat, count \in Nat] ==
        IF i >= Len(text) THEN -1
        ELSE IF text[i + 1] = "{" THEN Loop[i + 1, count + 1]
        ELSE IF text[i + 1] = "}"
             THEN IF count - 1 = 0 THEN i ELSE Loop[i + 1, count - 1]
             ELSE Loop[i + 1, count]
    IN  Loop[currentIndex, braceCount]

\* The FileInjection pushed for a trigger at startIndex closed at closeIndex.
MakeInjection(text, startIndex, closeIndex) ==
    [path |-> Trim(Substring(text,
                     startIndex + Len(AT_FILE_INJECTION_TRIGGER), closeIndex)),
     startIndex |-> startIndex,
     endIndex |-> closeIndex + 1]

(***************************************************************************)
(* Paths (node:path, POSIX).                                               *)
(***************************************************************************)
\* path.isAbsolute
IsAbsolute(p) == p # <<>> /\ p[1] = "/"

\* p.split('/'): the segments of p, empty ones included.
SplitFrom[p \in Seq(STRING)] ==
    IF \A i \in 1..Len(p) : p[i] # "/" THEN <<p>>
    ELSE LET at == CHOOSE i \in 1..Len(p) :
                      p[i] = "/" /\ \A j \in 1..(i - 1) : p[j] # "/"
         IN  <<SubSeq(p, 1, at - 1)>> \o SplitFrom[SubSeq(p, at + 1, Len(p))]

Split(p) == SplitFrom[p]

DotSeg == <<".">>
DotDotSeg == <<".", ".">>

\* Lexical normalisation of a segment list onto the stack acc: empty and
\* '.' segments are dropped, '..' removes the last segment (none at '/').
NormalizeOnto[segs \in Seq(Seq(STRING)), acc \in Seq(Seq(STRING))] ==
    IF segs = <<>> THEN acc
    ELSE IF segs[1] = <<>> \/ segs[1] = DotSeg THEN NormalizeOnto[Tail(segs), acc]
    ELSE IF segs[1] = DotDotSeg
         THEN NormalizeOnto[Tail(segs),
                IF acc = <<>> THEN acc ELSE SubSeq(acc, 1, Len(acc) - 1)]
         ELSE NormalizeOnto[Tail(segs), Append(acc, segs[1])]

NormalizeSegs(segs, acc) == NormalizeOnto[segs, acc]

\* The absolute path string of a normalised segment list.
PathOf[segs \in Seq(Seq(STRING))] ==
    IF segs = <<>> THEN <<"/">>
    ELSE IF Len(segs) = 1 THEN <<"/">> \o segs[1]
    ELSE <<"/">> \o segs[1] \o PathOf[Tail(segs)]

ToPath(segs) == PathOf[segs]

\* path.resolve(dir, p) for an absolute dir.
PathResolve(dir, p) ==
    ToPath(NormalizeSegs(IF IsAbsolute(p) THEN Split(p)
                         ELSE Split(dir) \o Split(p), <<>>))

\* Segment-wise containment of an absolute path under a root directory.
IsPathWithinRoot(p, rootDir) ==
    LET segs == NormalizeSegs(Split(p), <<>>)
        rsegs == NormalizeSegs(Split(rootDir), <<>>)
    IN  /\ Len(rsegs) <= Len(segs)
        /\ SubSeq(segs, 1, Len(rsegs)) = rsegs

\* WorkspaceContext.getDirectories()
GetDirectories(workspace) == workspace

\* WorkspaceContext.isPathWithinWorkspace(p)
IsPathWithinWorkspace(workspace, p) ==
    \E i \in 1..Len(workspace) : IsPathWithinRoot(p, workspace[i])

(***************************************************************************)
(* The file system behind fs.access / fs.stat / fs.readdir / fs.readFile.  *)
(* A file system maps node paths (lists of segment names below '/') to a   *)
(* node state; mode 0o222 (no read, no search) is the "222" states.        *)
(***************************************************************************)
NameA == <<"a">>
NameB == <<"b">>
RootNode == <<>>
DirA == <<"/", "a">>
DirB == <<"/", "b">>

NodeStates == {"none", "file", "file222", "dir", "dir222"}
FixedNodes == {RootNode, <<NameA>>, <<NameB>>}
VarNodes == {<<NameA, NameA>>, <<NameB, NameA>>, <<NameB, NameB>>}

IsDir(st) == st \in {"dir", "dir222"}
IsFile(st) == st \in {"file", "file222"}
CanRead(st) == st \in {"file", "dir"}

NodeState(files, node) ==
    IF node \in DOMAIN files THEN files[node] ELSE "none"

ParentNode(node) ==
    IF node = <<>> THEN node ELSE SubSeq(node, 1, Len(node) - 1)

\* The text stored in the file at node.
FileText(node) ==
    <<"@", "{">> \o node[1] \o <<"}">>

\* Path lookup as the OS does it, segment by segment from node cur:
\* [err |-> "OK", node |-> n] or the errno of the failing step.
Walk(fs) ==
    LET W[segs \in Seq(Seq(STRING)), cur \in Seq(Seq(STRING))] ==
        IF segs = <<>> THEN [err |-> "OK", node |-> cur]
        ELSE IF ~IsDir(NodeState(fs, cur)) THEN [err |-> "ENOTDIR", node |-> cur]
        ELSE IF ~CanRead(NodeState(fs, cur)) THEN [err |-> "EACCES", node |-> cur]
        ELSE IF segs[1] = <<>> \/ segs[1] = DotSeg THEN W[Tail(segs), cur]
        ELSE IF segs[1] = DotDotSeg THEN W[Tail(segs), ParentNode(cur)]
        ELSE IF NodeState(fs, Append(cur, segs[1])) = "none"
             THEN [err |-> "ENOENT", node |-> cur]
             ELSE W[Tail(segs), Append(cur, segs[1])]
    IN  W

Lookup(fs, p) == Walk(fs)[Split(p), RootNode]

\* The message of the Error a failing fs call rejects with.
FsErrorMessage(code, syscall, p) == <<code, ", ", syscall, " '">> \o p \o <<"'">>

\* fs.access(p): resolves iff the lookup succeeds.
FsAccessOk(files, p) == Lookup(files, p).err = "OK"

\* fs.stat(p): [ok, isDirectory] or [ok |-> FALSE, message].
FsStat(files, p) ==
    LET r == Lookup(files, p)
    IN  IF r.err = "OK"
        THEN [ok |-> TRUE, isDirectory |-> IsDir(NodeState(files, r.node)),
              message |-> <<>>]
        ELSE [ok |-> FALSE, isDirectory |-> FALSE,
              message |-> FsErrorMessage(r.err, "stat", p)]

\* The names of the immediate children of a directory node.
ChildNames(files, node) ==
    {n[Len(n)] : n \in {m \in DOMAIN files :
                          /\ m # <<>>
                          /\ ParentNode(m) = node
                          /\ files[m] # "none"}}

\* All orderings of a finite set as sequences.
Orderings(S) ==
    {f \in [1..Cardinality(S) -> S] : \A i, j \in 1..Cardinality(S) :
                                          i # j => f[i] # f[j]}

\* fs.readdir(p): the possible results, one per order of the entries.
FsReaddir(files, p) ==
    LET r == Lookup(files, p)
    IN  IF r.err # "OK"
        THEN {[ok |-> FALSE, entries |-> <<>>,
               message |-> FsErrorMessage(r.err, "scandir", p)]}
        ELSE IF ~IsDir(NodeState(files, r.node))
        THEN {[ok |-> FALSE, entries |-> <<>>,
               message |-> FsErrorMessage("ENOTDIR", "scandir", p)]}
        ELSE IF ~CanRead(NodeState(files, r.node))
        THEN {[ok |-> FALSE, entries |-> <<>>,
               message |-> FsErrorMessage("EACCES", "scandir", p)]}
        ELSE {[ok |-> TRUE, entries |-> es, message |-> <<>>] :
                 es \in Orderings(ChildNames(files, r.node))}

\* fs.readFile(p, 'utf-8')
FsReadFile(files, p) ==
    LET r == Lookup(files, p)
    IN  IF r.err # "OK"
        THEN [ok |-> FALSE, text |-> <<>>,
              message |-> FsErrorMessage(r.err, "open", p)]
        ELSE IF IsDir(NodeState(files, r.node))
        THEN [ok |-> FALSE, text |-> <<>>,
              message |-> FsErrorMessage("EISDIR", "read", p)]
        ELSE IF ~CanRead(NodeState(files, r.node))
        THEN [ok |-> FALSE, text |-> <<>>,
              message |-> FsErrorMessage("EACCES", "open", p)]
        ELSE [ok |-> TRUE, text |-> FileText(r.node), message |-> <<>>]

(***************************************************************************)
(* State.                                                                  *)
(***************************************************************************)
VARIABLES
    prompt,           \* process: the prompt argument
    config,           \* context.services.config: "none", "ok" or "throws"
                      \* (getWorkspaceContext() throws)
    workspace,        \* the workspace's directories, primary first
    files,            \* the file system
    pc,               \* position of process
    index,            \* extractInjections: index
    injections,       \* extractInjections: injections
    processedPrompt,  \* process: processedPrompt
    lastIndex,        \* process: lastIndex
    cursor,           \* process: position of the for loop in injections
    result,           \* the string process returned
    uiItems,          \* the items passed to context.ui.addItem
    consoleErrors,    \* the lines passed to console.error
    readCalls,        \* the pathStr of every readPathFromWorkspace call
    settled,          \* the ResolutionOutcome of every injection handled
    rpc,              \* position of readPathFromWorkspace
    pathStr,          \* readPathFromWorkspace: pathStr
    absolutePath,     \* readPathFromWorkspace: absolutePath
    dirIdx,           \* readPathFromWorkspace: position in searchDirs
    potentialPath,    \* readPathFromWorkspace: potentialPath
    probed,           \* the paths this call passed to fs.access
    outcome           \* how the call settled: [ok, value]

vars == <<prompt, config, workspace, files, pc, index, injections,
          processedPrompt, lastIndex, cursor, result, uiItems, consoleErrors,
          readCalls, settled, rpc, pathStr, absolutePath, dirIdx, potentialPath,
          probed, outcome>>

inputVars == <<prompt, config, workspace, files>>
scanVars == <<index, injections>>
spliceVars == <<processedPrompt, lastIndex, cursor>>
sinkVars == <<uiItems, consoleErrors>>
callVars == <<readCalls, settled>>
readerVars == <<rpc, pathStr, absolutePath, dirIdx, potentialPath, probed,
                outcome>>

Null == <<"null">>
NoOutcome == [ok |-> FALSE, value |-> Null]

(***************************************************************************)
(* AtFileProcessor.process                                                 *)
(***************************************************************************)
\* Faulty variant: the check of context.services.config is missing.
ProcessIgnoresConfig ==
    /\ pc = "start"
    /\ IF ~Includes(prompt, AT_FILE_INJECTION_TRIGGER)
       THEN /\ pc' = "done"
            /\ result' = prompt
       ELSE /\ pc' = "scan"
            /\ result' = result
    /\ UNCHANGED <<inputVars, scanVars, spliceVars, sinkVars, callVars,
                   readerVars>>

\* Lines 26-34: the two early returns, else start extractInjections.
Process ==
    /\ pc = "start"
    /\ IF ~Includes(prompt, AT_FILE_INJECTION_TRIGGER) \/ config = "none"
       THEN /\ pc' = "done"
            /\ result' = prompt
       ELSE /\ pc' = "scan"
            /\ result' = result
    /\ UNCHANGED <<inputVars, scanVars, spliceVars, sinkVars, callVars,
                   readerVars>>

\* The position of the next trigger at or after index, -1 when the outer
\* while loop ends (index at the end of the prompt, or no trigger left).
NextTrigger ==
    IF index < Len(prompt)
    THEN IndexOf(prompt, AT_FILE_INJECTION_TRIGGER, index)
    ELSE -1

\* Faulty variant: after a closed injection the scan resumes one character
\* after its trigger instead of after its closing brace.
ScanStepRescans ==
    /\ pc = "scan"
    /\ NextTrigger # -1
    /\ LET startIndex == NextTrigger
           closeIndex == FindEnd(prompt,
                           startIndex + Len(AT_FILE_INJECTION_TRIGGER), 1)
       IN  IF closeIndex # -1
           THEN /\ injections' = Append(injections,
                                   MakeInjection(prompt, startIndex, closeIndex))
                /\ index' = startIndex + 1
           ELSE /\ injections' = injections
                /\ index' = startIndex + 1
    /\ UNCHANGED <<inputVars, pc, spliceVars, result, sinkVars, callVars,
                   readerVars>>

\* Faulty variant: an unclosed trigger ends the scan (index jumps to the end
\* of the prompt).
ScanStepAbandonsRest ==
    /\ pc = "scan"
    /\ NextTrigger # -1
    /\ LET startIndex == NextTrigger
           closeIndex == FindEnd(prompt,
                           startIndex + Len(AT_FILE_INJECTION_TRIGGER), 1)
       IN  IF closeIndex # -1
           THEN /\ injections' = Append(injections,
                                   MakeInjection(prompt, startIndex, closeIndex))
                /\ index' = closeIndex + 1
           ELSE /\ injections' = injections
                /\ index' = Len(prompt)
    /\ UNCHANGED <<inputVars, pc, spliceVars, result, sinkVars, callVars,
                   readerVars>>

\* Faulty variant: an unclosed trigger does not advance index (line 142
\* without the + 1).
ScanStepNoAdvance ==
    /\ pc = "scan"
    /\ NextTrigger # -1
    /\ LET startIndex == NextTrigger
           closeIndex == FindEnd(prompt,
                           startIndex + Len(AT_FILE_INJECTION_TRIGGER), 1)
       IN  IF closeIndex # -1
           THEN /\ injections' = Append(injections,
                                   MakeInjection(prompt, startIndex, closeIndex))
                /\ index' = closeIndex + 1
           ELSE /\ injections' = injections
                /\ index' = startIndex
    /\ UNCHANGED <<inputVars, pc, spliceVars, result, sinkVars, callVars,
                   readerVars>>

\* One iteration of the outer while loop of extractInjections.
ScanStep ==
    /\ pc = "scan"
    /\ NextTrigger # -1
    /\ LET startIndex == NextTrigger
           closeIndex == FindEnd(prompt,
                           startIndex + Len(AT_FILE_INJECTION_TRIGGER), 1)
       IN  IF closeIndex # -1
           THEN /\ injections' = Append(injections,
                                   MakeInjection(prompt, startIndex, closeIndex))
                /\ index' = closeIndex + 1
           ELSE /\ injections' = injections
                /\ index' = startIndex + 1
    /\ UNCHANGED <<inputVars, pc, spliceVars, result, sinkVars, callVars,
                   readerVars>>

\* extractInjections returns; lines 37-42.
ScanEnd ==
    /\ pc = "scan"
    /\ NextTrigger = -1
    /\ IF Len(injections) = 0
       THEN /\ pc' = "done"
            /\ result' = prompt
       ELSE /\ pc' = "inject"
            /\ result' = result
    /\ UNCHANGED <<inputVars, scanVars, spliceVars, sinkVars, callVars,
                   readerVars>>

\* Faulty variant: the catch block drops the placeholder instead of keeping it.
CatchDropsPlaceholder(soFar, message) ==
    LET injection == injections[cursor]
        uiMessage == <<"Failed to inject file content for '@{">>
                       \o injection.path \o <<"}': ">> \o message
    IN  /\ consoleErrors' = Append(consoleErrors,
              <<"[AtFileProcessor] ">> \o uiMessage
                 \o <<". Leaving placeholder in prompt.">>)
        /\ uiItems' = Append(uiItems, [type |-> "error", text |-> uiMessage])
        /\ processedPrompt' = soFar
        /\ settled' = Append(settled, [ok |-> FALSE, value |-> message])
        /\ lastIndex' = injection.endIndex
        /\ cursor' = cursor + 1

\* Faulty variant: the catch block logs to the console only, not to the UI.
CatchWithoutUiItem(soFar, message) ==
    LET injection == injections[cursor]
        uiMessage == <<"Failed to inject file content for '@{">>
                       \o injection.path \o <<"}': ">> \o message
    IN  /\ consoleErrors' = Append(consoleErrors,
              <<"[AtFileProcessor] ">> \o uiMessage
                 \o <<". Leaving placeholder in prompt.">>)
        /\ uiItems' = uiItems
        /\ processedPrompt' = soFar \o Substring(prompt, injection.startIndex,
                                                 injection.endIndex)
        /\ settled' = Append(settled, [ok |-> FALSE, value |-> message])
        /\ lastIndex' = injection.endIndex
        /\ cursor' = cursor + 1

\* Faulty variant: the catch block leaves the loop (break), the injections
\* after a failed one are not resolved.
CatchBreaksLoop(soFar, message) ==
    LET injection == injections[cursor]
        uiMessage == <<"Failed to inject file content for '@{">>
                       \o injection.path \o <<"}': ">> \o message
    IN  /\ consoleErrors' = Append(consoleErrors,
              <<"[AtFileProcessor] ">> \o uiMessage
                 \o <<". Leaving placeholder in prompt.">>)
        /\ uiItems' = Append(uiItems, [type |-> "error", text |-> uiMessage])
        /\ processedPrompt' = soFar \o Substring(prompt, injection.startIndex,
                                                 injection.endIndex)
        /\ settled' = Append(settled, [ok |-> FALSE, value |-> message])
        /\ lastIndex' = injection.endIndex
        /\ cursor' = Len(injections) + 1

\* Faulty variant: the catch block rebuilds the placeholder from the trimmed
\* path instead of copying the slice of the prompt.
CatchRebuildsPlaceholder(soFar, message) ==
    LET injection == injections[cursor]
        uiMessage == <<"Failed to inject file content for '@{">>
                       \o injection.path \o <<"}': ">> \o message
    IN  /\ consoleErrors' = Append(consoleErrors,
              <<"[AtFileProcessor] ">> \o uiMessage
                 \o <<". Leaving placeholder in prompt.">>)
        /\ uiItems' = Append(uiItems, [type |-> "error", text |-> uiMessage])
        /\ processedPrompt' = soFar \o <<"@", "{">> \o injection.path
                                     \o <<"}">>
        /\ settled' = Append(settled, [ok |-> FALSE, value |-> message])
        /\ lastIndex' = injection.endIndex
        /\ cursor' = cursor + 1

\* The catch block, lines 55-78, and line 80: soFar is processedPrompt as
\* the try block left it, message the caught error's message.
CatchInjection(soFar, message) ==
    LET injection == injections[cursor]
        uiMessage == <<"Failed to inject file content for '@{">>
                       \o injection.path \o <<"}': ">> \o message
    IN  /\ consoleErrors' = Append(consoleErrors,
              <<"[AtFileProcessor] ">> \o uiMessage
                 \o <<". Leaving placeholder in prompt.">>)
        /\ uiItems' = Append(uiItems, [type |-> "error", text |-> uiMessage])
        /\ processedPrompt' = soFar \o Substring(prompt, injection.startIndex,
                                                 injection.endIndex)
        /\ settled' = Append(settled, [ok |-> FALSE, value |-> message])
        /\ lastIndex' = injection.endIndex
        /\ cursor' = cursor + 1

\* The message of what line 49 throws when config is not usable.
WorkspaceErrorMessage ==
    IF config = "none"
    THEN <<"Cannot read properties of null (reading 'getWorkspaceContext')">>
    ELSE <<"no workspace context">>

\* Lines 44-53: the text before the injection, then the workspace and the
\* call of readPathFromWorkspace.
InjectBegin ==
    /\ pc = "inject"
    /\ cursor <= Len(injections)
    /\ LET injection == injections[cursor]
           soFar == processedPrompt
                      \o Substring(prompt, lastIndex, injection.startIndex)
       IN  IF config # "ok"
           THEN /\ CatchInjection(soFar, WorkspaceErrorMessage)
                /\ UNCHANGED <<pc, readCalls, readerVars>>
           ELSE /\ processedPrompt' = soFar
                /\ pc' = "await"
                /\ readCalls' = Append(readCalls, injection.path)
                /\ rpc' = "start"
                /\ pathStr' = injection.path
                /\ absolutePath' = Null
                /\ dirIdx' = 1
                /\ potentialPath' = Null
                /\ probed' = <<>>
                /\ outcome' = NoOutcome
                /\ UNCHANGED <<lastIndex, cursor, sinkVars, settled>>
    /\ UNCHANGED <<inputVars, scanVars, result>>

\* Line 54 and line 80: readPathFromWorkspace resolved.
InjectSuccess ==
    /\ pc = "await"
    /\ rpc = "returned"
    /\ processedPrompt' = processedPrompt \o outcome.value
    /\ settled' = Append(settled, outcome)
    /\ lastIndex' = injections[cursor].endIndex
    /\ cursor' = cursor + 1
    /\ pc' = "inject"
    /\ rpc' = "idle"
    /\ UNCHANGED <<inputVars, scanVars, result, sinkVars, readCalls, pathStr,
                   absolutePath, dirIdx, potentialPath, probed, outcome>>

\* Faulty variant: the rejection is not caught and leaves process.
InjectFailureEscapes ==
    /\ pc = "await"
    /\ rpc = "threw"
    /\ pc' = "failed"
    /\ rpc' = "idle"
    /\ UNCHANGED <<inputVars, scanVars, spliceVars, result, sinkVars,
                   callVars, pathStr, absolutePath, dirIdx, potentialPath, probed,
                   outcome>>

\* Lines 55-80: readPathFromWorkspace rejected.
InjectFailure ==
    /\ pc = "await"
    /\ rpc = "threw"
    /\ CatchInjection(processedPrompt, outcome.value)
    /\ pc' = "inject"
    /\ rpc' = "idle"
    /\ UNCHANGED <<inputVars, scanVars, result, readCalls, pathStr,
                   absolutePath, dirIdx, potentialPath, probed, outcome>>

\* Faulty variant: the expanded text is expanded again while it differs from
\* the prompt and still holds a trigger.
FinishRescans ==
    /\ pc = "inject"
    /\ cursor > Len(injections)
    /\ LET expanded == processedPrompt \o SubstringFrom(prompt, lastIndex)
       IN  IF Includes(expanded, AT_FILE_INJECTION_TRIGGER) /\ expanded # prompt
           THEN /\ prompt' = expanded
                /\ pc' = "scan"
                /\ index' = 0
                /\ injections' = <<>>
                /\ processedPrompt' = <<>>
                /\ lastIndex' = 0
                /\ cursor' = 1
                /\ result' = result
           ELSE /\ processedPrompt' = expanded
                /\ result' = expanded
                /\ pc' = "done"
                /\ UNCHANGED <<prompt, scanVars, lastIndex, cursor>>
    /\ UNCHANGED <<config, workspace, files, sinkVars, callVars, readerVars>>

\* Lines 83-86: the text after the last injection; return.
Finish ==
    /\ pc = "inject"
    /\ cursor > Len(injections)
    /\ processedPrompt' = processedPrompt \o SubstringFrom(prompt, lastIndex)
    /\ result' = processedPrompt'
    /\ pc' = "done"
    /\ UNCHANGED <<inputVars, scanVars, lastIndex, cursor, sinkVars,
                   callVars, readerVars>>

(***************************************************************************)
(* readPathFromWorkspace                                                   *)
(***************************************************************************)
OutsideWorkspaceMessage(p) ==
    <<"Absolute path is outside of the allowed workspace: ">> \o p

NotFoundMessage(p) == <<"Path not found in workspace: ">> \o p

DirectoryListing(p, entries) ==
    <<"Directory listing for ">> \o p \o <<":", "\n", "-", " ">>
        \o Join(entries, <<"\n", "-", " ">>)

\* if (!absolutePath)
Falsy(s) == s = Null \/ s = <<>>

\* Faulty variant: an absolute path is taken without the workspace check.
ReadStartUnchecked ==
    /\ pc = "await"
    /\ rpc = "start"
    /\ IF IsAbsolute(pathStr)
       THEN /\ rpc' = "check"
            /\ absolutePath' = pathStr
       ELSE /\ rpc' = IF Len(GetDirectories(workspace)) = 0
                      THEN "check" ELSE "search"
            /\ absolutePath' = absolutePath
    /\ UNCHANGED <<inputVars, pc, scanVars, spliceVars, result, sinkVars,
                   callVars, pathStr, dirIdx, potentialPath, probed, outcome>>

\* Lines 24-35: the absolute branch, or the start of the search.
ReadStart ==
    /\ pc = "await"
    /\ rpc = "start"
    /\ IF IsAbsolute(pathStr)
       THEN IF ~IsPathWithinWorkspace(workspace, pathStr)
            THEN /\ rpc' = "threw"
                 /\ outcome' = [ok |-> FALSE,
                                value |-> OutsideWorkspaceMessage(pathStr)]
                 /\ absolutePath' = absolutePath
            ELSE /\ rpc' = "check"
                 /\ absolutePath' = pathStr
                 /\ outcome' = outcome
       ELSE /\ rpc' = IF Len(GetDirectories(workspace)) = 0
                      THEN "check" ELSE "search"
            /\ UNCHANGED <<absolutePath, outcome>>
    /\ UNCHANGED <<inputVars, pc, scanVars, spliceVars, result, sinkVars,
                   callVars, pathStr, dirIdx, potentialPath, probed>>

\* Lines 36-37: the candidate under the next search directory.
ReadCandidate ==
    /\ pc = "await"
    /\ rpc = "search"
    /\ potentialPath' = PathResolve(GetDirectories(workspace)[dirIdx], pathStr)
    /\ rpc' = "access"
    /\ UNCHANGED <<inputVars, pc, scanVars, spliceVars, result, sinkVars,
                   callVars, pathStr, absolutePath, dirIdx, probed, outcome>>

\* Faulty variant: the search does not stop at the first match (no break).
ReadAccessNoBreak ==
    /\ pc = "await"
    /\ rpc = "access"
    /\ probed' = Append(probed, potentialPath)
    /\ absolutePath' = IF FsAccessOk(files, potentialPath)
                       THEN potentialPath ELSE absolutePath
    /\ dirIdx' = dirIdx + 1
    /\ rpc' = IF dirIdx = Len(GetDirectories(workspace))
              THEN "check" ELSE "search"
    /\ UNCHANGED <<inputVars, pc, scanVars, spliceVars, result, sinkVars,
                   callVars, pathStr, potentialPath, outcome>>

\* Faulty variant: a failing fs.access ends the search (the error is not
\* swallowed per directory).
ReadAccessAborts ==
    /\ pc = "await"
    /\ rpc = "access"
    /\ probed' = Append(probed, potentialPath)
    /\ absolutePath' = IF FsAccessOk(files, potentialPath)
                       THEN potentialPath ELSE absolutePath
    /\ dirIdx' = dirIdx
    /\ rpc' = "check"
    /\ UNCHANGED <<inputVars, pc, scanVars, spliceVars, result, sinkVars,
                   callVars, pathStr, potentialPath, outcome>>

\* Faulty variant: the existence check also asks for read permission
\* (fs.access with R_OK), so an unreadable match is passed over.
ReadAccessReadable ==
    /\ pc = "await"
    /\ rpc = "access"
    /\ probed' = Append(probed, potentialPath)
    /\ IF /\ FsAccessOk(files, potentialPath)
          /\ CanRead(NodeState(files, Lookup(files, potentialPath).node))
       THEN /\ absolutePath' = potentialPath
            /\ rpc' = "check"
            /\ dirIdx' = dirIdx
       ELSE /\ absolutePath' = absolutePath
            /\ dirIdx' = dirIdx + 1
            /\ rpc' = IF dirIdx = Len(GetDirectories(workspace))
                      THEN "check" ELSE "search"
    /\ UNCHANGED <<inputVars, pc, scanVars, spliceVars, result, sinkVars,
                   callVars, pathStr, potentialPath, outcome>>

\* Lines 38-45: fs.access on the candidate; the first match ends the
\* search, a failure moves on to the next directory.
ReadAccess ==
    /\ pc = "await"
    /\ rpc = "access"
    /\ probed' = Append(probed, potentialPath)
    /\ IF FsAccessOk(files, potentialPath)
       THEN /\ absolutePath' = potentialPath
            /\ rpc' = "check"
            /\ dirIdx' = dirIdx
       ELSE /\ absolutePath' = absolutePath
            /\ dirIdx' = dirIdx + 1
            /\ rpc' = IF dirIdx = Len(GetDirectories(workspace))
                      THEN "check" ELSE "search"
    /\ UNCHANGED <<inputVars, pc, scanVars, spliceVars, result, sinkVars,
                   callVars, pathStr, potentialPath, outcome>>

\* Lines 48-53: the not-found check, then fs.stat.
ReadStat ==
    /\ pc = "await"
    /\ rpc = "check"
    /\ IF Falsy(absolutePath)
       THEN /\ rpc' = "threw"
            /\ outcome' = [ok |-> FALSE, value |-> NotFoundMessage(pathStr)]
       ELSE LET stats == FsStat(files, absolutePath)
            IN  IF ~stats.ok
                THEN /\ rpc' = "threw"
                     /\ outcome' = [ok |-> FALSE, value |-> stats.message]
                ELSE /\ rpc' = IF stats.isDirectory
                               THEN "readdir" ELSE "readfile"
                     /\ outcome' = outcome
    /\ UNCHANGED <<inputVars, pc, scanVars, spliceVars, result, sinkVars,
                   callVars, pathStr, absolutePath, dirIdx, potentialPath, probed>>

\* Lines 54-55: the directory listing.
ReadDirectory ==
    /\ pc = "await"
    /\ rpc = "readdir"
    /\ \E r \in FsReaddir(files, absolutePath) :
          IF r.ok
          THEN /\ rpc' = "returned"
               /\ outcome' = [ok |-> TRUE,
                              value |-> DirectoryListing(pathStr, r.entries)]
          ELSE /\ rpc' = "threw"
               /\ outcome' = [ok |-> FALSE, value |-> r.message]
    /\ UNCHANGED <<inputVars, pc, scanVars, spliceVars, result, sinkVars,
                   callVars, pathStr, absolutePath, dirIdx, potentialPath, probed>>

\* Line 57: the file's text.
ReadFile ==
    /\ pc = "await"
    /\ rpc = "readfile"
    /\ LET r == FsReadFile(files, absolutePath)
       IN  IF r.ok
           THEN /\ rpc' = "returned"
                /\ outcome' = [ok |-> TRUE, value |-> r.text]
           ELSE /\ rpc' = "threw"
                /\ outcome' = [ok |-> FALSE, value |-> r.message]
    /\ UNCHANGED <<inputVars, pc, scanVars, spliceVars, result, sinkVars,
                   callVars, pathStr, absolutePath, dirIdx, potentialPath, probed>>

(***************************************************************************)
(* Specifications.                                                         *)
(***************************************************************************)
Configs == {"none", "ok", "throws"}

BaseFiles == [n \in FixedNodes |-> "dir"]
FileSystems ==
    {BaseFiles @@ v : v \in {w \in [VarNodes -> NodeStates] :
                                w[<<NameB, NameB>>] \in {"none", "file"}}}

\* File systems in which at most /a/a exists, as a readable file.
PlainFileSystems ==
    {f \in FileSystems : /\ f[<<NameA, NameA>>] \in {"none", "file"}
                         /\ f[<<NameB, NameA>>] = "none"
                         /\ f[<<NameB, NameB>>] = "none"}

Workspaces == {<<DirA>>, <<DirA, DirB>>, <<DirB, DirA>>}

ExpandChars == {"@", "{", "}", "a"}
ScanChars == {"@", "{", "}", " ", "a"}
PathChars == {"/", ".", "a", "b"}

InitCall ==
    /\ pc = "start"
    /\ index = 0
    /\ injections = <<>>
    /\ processedPrompt = <<>>
    /\ lastIndex = 0
    /\ cursor = 1
    /\ result = Null
    /\ uiItems = <<>>
    /\ consoleErrors = <<>>
    /\ readCalls = <<>>
    /\ settled = <<>>
    /\ rpc = "idle"
    /\ pathStr = <<>>
    /\ absolutePath = Null
    /\ dirIdx = 1
    /\ potentialPath = Null
    /\ probed = <<>>
    /\ outcome = NoOutcome

Next ==
    \/ Process
    \/ ScanStep
    \/ ScanEnd
    \/ InjectBegin
    \/ ReadStart
    \/ ReadCandidate
    \/ ReadAccess
    \/ ReadStat
    \/ ReadDirectory
    \/ ReadFile
    \/ InjectSuccess
    \/ InjectFailure
    \/ Finish

\* Every prompt over ExpandChars, with or without a workspace context.
Init ==
    /\ prompt \in Strings(ExpandChars, MaxLen)
    /\ config \in Configs
    /\ workspace = <<DirA>>
    /\ files \in PlainFileSystems
    /\ InitCall

Spec == Init /\ [][Next]_vars

\* Every prompt over ScanChars (white space included).
InitScan ==
    /\ prompt \in Strings(ScanChars, MaxScanLen)
    /\ config = "ok"
    /\ workspace = <<DirA>>
    /\ files \in PlainFileSystems
    /\ InitCall

SpecScan == InitScan /\ [][Next]_vars

\* The same, with the event loop running process on to its return.
SpecScanFair == InitScan /\ [][Next]_vars /\ WF_vars(Next)

\* One placeholder with every path over PathChars, over every file system
\* and workspace.
InitPath ==
    /\ \E p \in Strings(PathChars, MaxPathLen) :
          prompt = <<"@", "{">> \o p \o <<"}">>
    /\ config \in {"ok", "throws"}
    /\ workspace \in Workspaces
    /\ files \in FileSystems
    /\ InitCall

SpecPath == InitPath /\ [][Next]_vars

(***************************************************************************)
(* Properties.                                                             *)
(***************************************************************************)
\* The candidate of a relative pathStr under the i-th workspace directory.
Candidate(i) == PathResolve(workspace[i], pathStr)

\* The existence check fails under every workspace directory.
NoCandidateExists ==
    \A i \in 1..Len(workspace) : Lookup(files, Candidate(i)).err # "OK"

\* readPathFromWorkspace was called and has settled.
ReadSettled == readCalls # <<>> /\ rpc \in {"returned", "threw", "idle"}

\* C1: whenever readPathFromWorkspace returns content, the absolute target
\* that was stat-ed and read or listed lies within a workspace directory.
C1_ReadStaysInWorkspace ==
    rpc = "returned" => IsPathWithinWorkspace(workspace, absolutePath)

\* What injection i contributes to the output, and the text before it.
Piece(i) ==
    IF settled[i].ok THEN settled[i].value
    ELSE Substring(prompt, injections[i].startIndex, injections[i].endIndex)

Gap(i) ==
    Substring(prompt, IF i = 1 THEN 0 ELSE injections[i - 1].endIndex,
              injections[i].startIndex)

RECURSIVE Spliced(_)
Spliced(n) == IF n = 0 THEN <<>> ELSE Spliced(n - 1) \o Gap(n) \o Piece(n)

ExpectedOutput ==
    LET n == Len(injections)
    IN  Spliced(n) \o SubstringFrom(prompt,
                        IF n = 0 THEN 0 ELSE injections[n].endIndex)

\* C2: the output of process is the prompt with each span replaced by its
\* resolved content when its resolution succeeded and by its own verbatim
\* slice when it failed, the text outside the spans copied in order; what
\* is emitted for a span depends on that span's outcome only.
C2_OutputIsSpliceOfOutcomes ==
    pc = "done" => /\ Len(settled) = Len(injections)
                   /\ result = ExpectedOutput

C2_MixedOutcomesReached ==
    /\ pc = "done"
    /\ Len(settled) = 2
    /\ ~settled[1].ok
    /\ settled[2].ok
    /\ result # prompt

FailedSpans == {i \in 1..Len(settled) : ~settled[i].ok}
ErrorItems == {i \in 1..Len(uiItems) : uiItems[i].type = "error"}

\* C3: the number of ERROR items sent to ui.addItem equals the number of
\* spans whose resolution failed: one per failure, none for a success.
C3_OneErrorItemPerFailure ==
    /\ Cardinality(ErrorItems) = Cardinality(FailedSpans)
    /\ Len(uiItems) = Cardinality(ErrorItems)
    /\ pc = "done" => Len(settled) = Len(injections)

C3_SuccessThenFailureReached ==
    /\ pc = "done"
    /\ Len(settled) = 2
    /\ settled[1].ok
    /\ ~settled[2].ok
    /\ Len(uiItems) = 1

\* C4: process never fails: whatever fails while an injection is resolved,
\* the call goes on until it returns a string; it never stops elsewhere.
C4_ProcessNeverFails ==
    IF pc = "done" THEN result # Null ELSE ENABLED Next

C4_ReadFailureAbsorbedReached ==
    /\ pc = "done"
    /\ Len(settled) = 1
    /\ ~settled[1].ok
    /\ settled[1].value[1] = "EACCES"
    /\ result = prompt

\* C5: an absolute path that isPathWithinWorkspace rejects fails with the
\* outside-of-workspace error whose message carries the path, nothing is
\* looked up; process keeps the placeholder and sends one ERROR item whose
\* text contains the path.
C5_OutsideAbsolutePathRejected ==
    (/\ readCalls # <<>>
     /\ pathStr # <<>>
     /\ pathStr[1] = "/"
     /\ ~IsPathWithinWorkspace(workspace, pathStr))
    => /\ rpc \in {"start", "threw", "idle"}
       /\ probed = <<>>
       /\ rpc # "start" =>
            /\ ~outcome.ok
            /\ outcome.value =
                 <<"Absolute path is outside of the allowed workspace: ">>
                    \o pathStr
       /\ pc = "done" =>
            /\ result = prompt
            /\ Len(uiItems) = 1
            /\ uiItems[1].type = "error"
            /\ Includes(uiItems[1].text, outcome.value)
            /\ Includes(uiItems[1].text, pathStr)

C5_OutsideFileReached ==
    /\ pc = "done"
    /\ workspace = <<DirA>>
    /\ pathStr = <<"/", "b", "/", "b">>
    /\ files[<<NameB, NameB>>] = "file"
    /\ Len(uiItems) = 1
    /\ result = prompt

\* C6: for a relative path the target is the candidate under the first
\* directory, in getDirectories order, under which the path exists; if it
\* exists under the primary directory, that version is the one read.
C6_FirstExistingRootWins ==
    (/\ readCalls # <<>>
     /\ ~(pathStr # <<>> /\ pathStr[1] = "/")
     /\ absolutePath # Null)
    => /\ \E i \in 1..Len(workspace) :
             /\ absolutePath = Candidate(i)
             /\ Lookup(files, Candidate(i)).err = "OK"
             /\ \A j \in 1..(i - 1) : Lookup(files, Candidate(j)).err # "OK"
       /\ (/\ rpc = "returned"
           /\ Lookup(files, Candidate(1)).err = "OK"
           /\ IsFile(NodeState(files, Lookup(files, Candidate(1)).node)))
          => outcome.value = FileText(Lookup(files, Candidate(1)).node)

C6_PrimaryVersionReadReached ==
    /\ rpc = "returned"
    /\ workspace = <<DirA, DirB>>
    /\ pathStr = <<"a">>
    /\ files[<<NameA, NameA>>] = "file"
    /\ files[<<NameB, NameA>>] = "file"
    /\ outcome.value = <<"@", "{", "a", "}">>

\* C7: for a relative path a failing existence check does not end the
\* search: the directories are tried in order up to the first under which
\* the check succeeds, and the call fails with "Path not found in
\* workspace: <path>" exactly when the check fails under every directory.
C7_NotFoundIffNoRootHasPath ==
    (ReadSettled /\ ~(pathStr # <<>> /\ pathStr[1] = "/"))
    => /\ (outcome = [ok |-> FALSE,
                      value |-> <<"Path not found in workspace: ">> \o pathStr])
          <=> NoCandidateExists
       /\ Len(probed) <= Len(workspace)
       /\ \A i \in 1..Len(probed) :
             /\ probed[i] = Candidate(i)
             /\ i < Len(probed) => Lookup(files, Candidate(i)).err # "OK"
       /\ NoCandidateExists => Len(probed) = Len(workspace)
       /\ ~NoCandidateExists =>
             Lookup(files, probed[Len(probed)]).err = "OK"

C7_FoundUnderSecondRootReached ==
    /\ rpc = "returned"
    /\ workspace = <<DirA, DirB>>
    /\ pathStr = <<"a">>
    /\ files[<<NameA, NameA>>] = "none"
    /\ Len(probed) = 2
    /\ absolutePath = <<"/", "b", "/", "a">>

\* The text holds no '@' directly followed by '{'.
NoTrigger(text) ==
    \A i \in 1..(Len(text) - 1) : ~(text[i] = "@" /\ text[i + 1] = "{")

\* C8: for a text without the trigger '@{' process returns the text
\* unchanged, never calls readPathFromWorkspace and sends no notification.
C8_NoTriggerNoEffect ==
    NoTrigger(prompt) => /\ readCalls = <<>>
                         /\ uiItems = <<>>
                         /\ pc = "done" => result = prompt

C8_NoTriggerReturnedReached ==
    /\ pc = "done"
    /\ NoTrigger(prompt)
    /\ \E i \in 1..Len(prompt) : prompt[i] = "@"
    /\ \E i \in 1..Len(prompt) : prompt[i] = "}"
    /\ config = "ok"
    /\ result = prompt

\* C9: without context.services.config process returns the prompt
\* unchanged, placeholders included, and calls neither
\* readPathFromWorkspace nor ui.addItem.
C9_NoConfigNoEffect ==
    config = "none" => /\ readCalls = <<>>
                       /\ uiItems = <<>>
                       /\ pc = "done" => result = prompt

C9_PlaceholderKeptReached ==
    /\ pc = "done"
    /\ config = "none"
    /\ prompt = <<"@", "{", "a", "}">>
    /\ files[<<NameA, NameA>>] = "file"
    /\ result = prompt

\* Brace depth after the character at 0-based position k, counted from
\* position from with depth 1 before it.
DepthAfter(text, from, k) ==
    1 + Cardinality({j \in from..k : text[j + 1] = "{"})
      - Cardinality({j \in from..k : text[j + 1] = "}"})

\* t is inner without its leading and trailing white space.
IsStripped(t, inner) ==
    \E l \in 0..Len(inner) : \E r \in l..Len(inner) :
        /\ t = SubSeq(inner, l + 1, r)
        /\ \A j \in 1..l : inner[j] \in {" ", "\n"}
        /\ \A j \in (r + 1)..Len(inner) : inner[j] \in {" ", "\n"}
        /\ t # <<>> => /\ t[1] \notin {" ", "\n"}
                       /\ t[Len(t)] \notin {" ", "\n"}

\* C10: every span closes at the first position after its trigger where
\* the brace depth (1 at the trigger, +1 per '{', -1 per '}') is back at
\* 0, and its path is the text between the trigger and that '}' with the
\* surrounding white space stripped; nested braces stay in the path.
C10_SpanClosesAtDepthZero ==
    \A n \in 1..Len(injections) :
        LET s == injections[n].startIndex
            c == injections[n].endIndex - 1
        IN  /\ 0 <= s
            /\ s + 2 <= c
            /\ c < Len(prompt)
            /\ prompt[s + 1] = "@"
            /\ prompt[s + 2] = "{"
            /\ prompt[c + 1] = "}"
            /\ DepthAfter(prompt, s + 2, c) = 0
            /\ \A k \in (s + 2)..(c - 1) : DepthAfter(prompt, s + 2, k) # 0
            /\ IsStripped(injections[n].path, Substring(prompt, s + 2, c))

C10_NestedBracesStrippedReached ==
    /\ pc = "done"
    /\ Len(injections) = 1
    /\ injections[1].path = <<"{", "}">>
    /\ injections[1].endIndex - injections[1].startIndex = 6

\* A trigger '@{' stands at 0-based position s of text.
TriggerAt(text, s) ==
    /\ 0 <= s
    /\ s + 2 <= Len(text)
    /\ text[s + 1] = "@"
    /\ text[s + 2] = "{"

\* The brace depth opened by the trigger at s is back at 0 somewhere.
Closed(text, s) ==
    \E c \in (s + 2)..(Len(text) - 1) : DepthAfter(text, s + 2, c) = 0

Unclosed(text, s) == TriggerAt(text, s) /\ ~Closed(text, s)

\* C11: the spans of extractInjections satisfy 0 <= startIndex < endIndex
\* <= length of the text, come strictly left to right without overlap
\* (each starts at or after the end of the one before), start at the '@'
\* of a trigger and end just past a '}'.
C11_SpansOrderedWithinText ==
    \A n \in 1..Len(injections) :
        LET s == injections[n].startIndex
            e == injections[n].endIndex
        IN  /\ 0 <= s
            /\ s < e
            /\ e <= Len(prompt)
            /\ n > 1 => /\ injections[n - 1].endIndex <= s
                        /\ injections[n - 1].startIndex < s
            /\ TriggerAt(prompt, s)
            /\ prompt[e] = "}"

C11_AdjacentSpansReached ==
    /\ pc = "done"
    /\ Len(injections) = 2
    /\ injections[1].startIndex = 0
    /\ injections[2].startIndex = injections[1].endIndex
    /\ injections[2].endIndex = Len(prompt)

\* No trigger of text is ever closed.
NoTriggerCloses(text) ==
    \A s \in 0..(Len(text) - 2) : TriggerAt(text, s) => ~Closed(text, s)

\* C12: for a text in which no trigger is ever closed extractInjections
\* yields no span, and process returns the text unchanged without calling
\* readPathFromWorkspace.
C12_UnclosedYieldsNothing ==
    NoTriggerCloses(prompt) => /\ injections = <<>>
                               /\ readCalls = <<>>
                               /\ uiItems = <<>>
                               /\ pc \in {"start", "scan", "done"}
                               /\ pc = "done" => result = prompt

C12_TwoUnclosedReached ==
    /\ pc = "done"
    /\ config = "ok"
    /\ Unclosed(prompt, 0)
    /\ \E s \in 1..(Len(prompt) - 2) : Unclosed(prompt, s)
    /\ NoTriggerCloses(prompt)
    /\ result = prompt

\* Position t lies strictly inside an emitted span.
InsideSpan(t) ==
    \E n \in 1..Len(injections) :
        injections[n].startIndex < t /\ t < injections[n].endIndex

\* C14: after an unclosed trigger at s the scan resumes at s + 1 (index is
\* 0, the end of the last span, or one past an unclosed trigger), so when
\* the scan is over every closed trigger that does not lie inside an
\* emitted span is itself the start of a span.
C14_ResumesOnePastUnclosed ==
    /\ pc = "scan" =>
          \/ index = 0
          \/ /\ injections # <<>>
             /\ index = injections[Len(injections)].endIndex
          \/ Unclosed(prompt, index - 1)
    /\ (pc \notin {"start", "scan"} /\ config # "none") =>
          \A t \in 0..(Len(prompt) - 2) :
              (TriggerAt(prompt, t) /\ Closed(prompt, t) /\ ~InsideSpan(t))
              => \E n \in 1..Len(injections) : injections[n].startIndex = t

C14_SpanInsideAbandonedReached ==
    /\ pc = "done"
    /\ prompt = <<"@", "{", "@", "{", "a", "}">>
    /\ Unclosed(prompt, 0)
    /\ Len(injections) = 1
    /\ injections[1].startIndex = 2
    /\ injections[1].path = <<"a">>

\* C20: extractInjections terminates: every iteration of the outer loop
\* moves index strictly forward, to the end of the span after a closed
\* trigger and to one past the trigger after an unclosed one, never beyond
\* the end of the text, and the scan is left eventually.
C20_ScannerTerminates ==
    /\ [][(pc = "scan" /\ pc' = "scan") =>
             /\ index < index'
             /\ index' <= Len(prompt)
             /\ IF injections' # injections
                THEN index' = injections'[Len(injections')].endIndex
                ELSE /\ Unclosed(prompt, index' - 1)
                     /\ \A t \in index..(index' - 2) : ~TriggerAt(prompt, t)]_vars
    /\ (pc = "scan") ~> (pc # "scan")

C20_ClosedThenUnclosedReached ==
    /\ pc = "done"
    /\ Len(injections) = 1
    /\ injections[1].endIndex = 3
    /\ Unclosed(prompt, 3)
    /\ index = 4

\* The lines '- <entry>' of a listing, each after a line break.
ListingLines[es \in Seq(Seq(STRING))] ==
    IF es = <<>> THEN <<>>
    ELSE <<"\n", "-", " ">> \o es[1] \o ListingLines[Tail(es)]

\* C13: when the target is a directory, readPathFromWorkspace returns
\* 'Directory listing for <pathStr>:' followed by exactly one '- <entry>'
\* line per immediate child of the directory, a directory without
\* children included.
C13_ListingHasOneLinePerChild ==
    (/\ rpc = "returned"
     /\ absolutePath # Null
     /\ Lookup(files, absolutePath).err = "OK"
     /\ IsDir(NodeState(files, Lookup(files, absolutePath).node)))
    => \E es \in Orderings(ChildNames(files,
                                      Lookup(files, absolutePath).node)) :
          outcome.value = <<"Directory listing for ">> \o pathStr \o <<":">>
                             \o ListingLines[es]

FirstExisting ==
    LET found == {i \in 1..Len(workspace) :
                     Lookup(files, Candidate(i)).err = "OK"}
    IN  IF found = {} THEN 0
        ELSE CHOOSE i \in found : \A j \in found : i <= j

\* The target the file system and the workspace determine for pathStr.
Selected ==
    IF pathStr # <<>> /\ pathStr[1] = "/"
    THEN IF IsPathWithinWorkspace(workspace, pathStr) THEN pathStr ELSE Null
    ELSE IF FirstExisting = 0 THEN Null ELSE Candidate(FirstExisting)

\* The message of the failure that stat, readdir or readFile meets on the
\* target p, Null when they all succeed.
ReadFailure(p) ==
    LET r == Lookup(files, p)
    IN  IF r.err # "OK" THEN <<r.err, ", ", "stat", " '">> \o p \o <<"'">>
        ELSE IF NodeState(files, r.node) = "dir222"
        THEN <<"EACCES", ", ", "scandir", " '">> \o p \o <<"'">>
        ELSE IF NodeState(files, r.node) = "file222"
        THEN <<"EACCES", ", ", "open", " '">> \o p \o <<"'">>
        ELSE Null

\* C17: once the target is selected (the first directory under which the
\* relative path exists, or a contained absolute path), a failure of stat,
\* readdir or readFile on it makes the call fail with that failure's
\* message; no directory after the selected one is tried.
C17_ReadFailureSurfacesNoFallback ==
    (ReadSettled /\ Selected # Null /\ ReadFailure(Selected) # Null)
    => /\ outcome = [ok |-> FALSE, value |-> ReadFailure(Selected)]
       /\ absolutePath = Selected
       /\ IF pathStr # <<>> /\ pathStr[1] = "/"
          THEN probed = <<>>
          ELSE /\ Len(probed) = FirstExisting
               /\ probed[Len(probed)] = Selected

C17_UnreadableFirstRootReached ==
    /\ rpc = "threw"
    /\ workspace = <<DirA, DirB>>
    /\ pathStr = <<"a">>
    /\ files[<<NameA, NameA>>] = "file222"
    /\ files[<<NameB, NameA>>] = "file"
    /\ Len(probed) = 1
    /\ outcome.value = <<"EACCES", ", ", "open", " '", "/", "a", "/", "a", "'">>

\* The number of injections whose handling has begun.
Begun == IF pc = "await" THEN cursor ELSE cursor - 1

C18_AllFailedIsIdentity ==
    (pc = "done" /\ \A i \in 1..Len(settled) : ~settled[i].ok)
    => result = prompt

C18_PaddedPlaceholderKeptReached ==
    /\ pc = "done"
    /\ Len(settled) = 1
    /\ ~settled[1].ok
    /\ readCalls = <<<<"a">>>>
    /\ prompt = <<"@", "{", " ", "a", " ", "}">>
    /\ result = prompt

\* The spans of text, recounted from the brace depth: from position i, the
\* first trigger closes at the first position where the depth is 0, or is
\* passed over when there is none.
RefSpans(text) ==
    LET Least(S) == CHOOSE x \in S : \A y \in S : x <= y
        Scan[i \in Nat] ==
            LET starts == {t \in i..(Len(text) - 2) : TriggerAt(text, t)}
            IN  IF starts = {} THEN <<>>
                ELSE LET s == Least(starts)
                         closes == {c \in (s + 2)..(Len(text) - 1) :
                                       DepthAfter(text, s + 2, c) = 0}
                     IN  IF closes = {} THEN Scan[s + 1]
                         ELSE <<[startIndex |-> s,
                                 endIndex |-> Least(closes) + 1]>>
                                \o Scan[Least(closes) + 1]
    IN  Scan[0]

\* C19: expansion is single-pass: the spans are those of the original
\* prompt, resolved content is spliced in verbatim even when it holds
\* '@{...}', and readPathFromWorkspace is called as many times as the
\* original prompt has spans.
C19_SinglePass ==
    /\ (pc \notin {"start", "scan"} /\ config # "none") =>
          /\ Len(injections) = Len(RefSpans(prompt))
          /\ \A n \in 1..Len(injections) :
                /\ injections[n].startIndex = RefSpans(prompt)[n].startIndex
                /\ injections[n].endIndex = RefSpans(prompt)[n].endIndex
    /\ Len(readCalls) <= Len(RefSpans(prompt))
    /\ (pc = "done" /\ config = "ok") =>
          /\ Len(readCalls) = Len(RefSpans(prompt))
          /\ result = ExpectedOutput

C19_ContentWithTriggerReached ==
    /\ pc = "done"
    /\ Len(readCalls) = 1
    /\ settled[1].ok
    /\ Includes(settled[1].value, <<"@", "{">>)
    /\ result # prompt
    /\ Includes(result, settled[1].value)

====
